---- MODULE Spec2Model ----
(***************************************************************************)
(* Model of src/color-utils.js: getDominantColors(imageElement, maxColors) *)
(* and the image handles, load / error events and promises around it.      *)
(*                                                                         *)
(* Strings are sequences of one-character strings, so that formatting     *)
(* (toString, template literal, zero padding) and parsing (split, Number)  *)
(* are computed and not assumed.                                           *)
(***************************************************************************)
EXTENDS Integers, Sequences, FiniteSets, TLC

(***************************************************************************)
(* Bounds of the model.                                                    *)
(***************************************************************************)
NumCalls == 2
NumImages == 1
MaxSrcSets == 2
MaxPixels == 3
MaxColors == 3

Calls == 1..NumCalls
Imgs == 1..NumImages
NoImage == 0
NoHandler == 0

(***************************************************************************)
(* Constants of the program.                                               *)
(***************************************************************************)
fallbackColors ==
    << <<"#", "1", "a", "1", "a", "1", "a">>,
       <<"#", "2", "a", "2", "a", "2", "a">>,
       <<"#", "3", "a", "3", "a", "3", "a">>,
       <<"#", "0", "0", "0", "0", "0", "0">> >>

AlphaThreshold == 128
QuantStep == 24
DistinctThreshold == 60
PadChannel == 20

(***************************************************************************)
(* Number and string primitives of the language runtime, as the code uses  *)
(* them.                                                                   *)
(***************************************************************************)
Digits == <<"0", "1", "2", "3", "4", "5", "6", "7", "8", "9",
            "a", "b", "c", "d", "e", "f">>

Min(a, b) == IF a < b THEN a ELSE b
Max(a, b) == IF a > b THEN a ELSE b
Abs(x) == IF x < 0 THEN -x ELSE x

\* Number.prototype.toString(radix) of a non-negative integer
RECURSIVE NumberToString(_, _)
NumberToString(n, radix) ==
    IF n < radix THEN <<Digits[n + 1]>>
    ELSE NumberToString(n \div radix, radix) \o <<Digits[(n % radix) + 1]>>

\* a rounding that truncates
MathRoundDown(num, den) == num \div den

\* Math.round(num / den) for num >= 0, den > 0: halves round up
MathRound(num, den) == (2 * num + den) \div (2 * den)

\* value of a decimal digit character
DigitValue(ch) == CHOOSE d \in 0..9 : Digits[d + 1] = ch

\* Number(s) of a string of decimal digits
RECURSIVE Number(_)
Number(s) ==
    IF Len(s) = 0 THEN 0
    ELSE 10 * Number(SubSeq(s, 1, Len(s) - 1)) + DigitValue(s[Len(s)])

\* String.prototype.split(sep) for a one-character separator
RECURSIVE Split(_, _)
Split(s, sep) ==
    IF \A k \in 1..Len(s) : s[k] # sep THEN <<s>>
    ELSE LET p == CHOOSE k \in 1..Len(s) :
                      s[k] = sep /\ \A j \in 1..(k - 1) : s[j] # sep
         IN <<SubSeq(s, 1, p - 1)>> \o Split(SubSeq(s, p + 1, Len(s)), sep)

(***************************************************************************)
(* extract(): quantize and count                                           *)
(***************************************************************************)
Quantize(x) == MathRound(x, QuantStep) * QuantStep

BucketKey(qr, qg, qb) ==
    NumberToString(qr, 10) \o <<",">> \o NumberToString(qg, 10) \o <<",">> \o NumberToString(qb, 10)

\* colorCounts[key] = (colorCounts[key] || 0) + 1; the table keeps its keys
\* in insertion order, which is the order Object.entries enumerates them in
Increment(colorCounts, key) ==
    IF \E j \in 1..Len(colorCounts) : colorCounts[j].key = key
    THEN LET j == CHOOSE j \in 1..Len(colorCounts) : colorCounts[j].key = key
         IN [colorCounts EXCEPT ![j].count = @ + 1]
    ELSE Append(colorCounts, [key |-> key, count |-> 1])

\* a skip test that also drops alpha = 128
SkipsInclusive(a) == a <= AlphaThreshold

\* if (a < 128) continue
Skips(a) == a < AlphaThreshold

\* the loop over imageData (a flat r,g,b,a array; i is the 0-based index)
RECURSIVE CountColors(_, _, _)
CountColors(imageData, i, colorCounts) ==
    IF ~(i < Len(imageData)) THEN colorCounts
    ELSE LET r == imageData[i + 1]
             g == imageData[i + 2]
             b == imageData[i + 3]
             a == imageData[i + 4]
         IN IF Skips(a) THEN CountColors(imageData, i + 4, colorCounts)
            ELSE CountColors(imageData, i + 4,
                     Increment(colorCounts,
                               BucketKey(Quantize(r), Quantize(g), Quantize(b))))

(***************************************************************************)
(* extract(): sort by frequency                                            *)
(***************************************************************************)
\* a comparator with its operands swapped
CompareAscending(a, b) == a.count - b.count

\* comparator (a, b) => b[1] - a[1]
Compare(a, b) == b.count - a.count

\* Array.prototype.sort is stable: e goes after every entry it does not
\* have to precede
RECURSIVE InsertSorted(_, _)
InsertSorted(sorted, e) ==
    IF Len(sorted) = 0 THEN <<e>>
    ELSE IF Compare(sorted[Len(sorted)], e) <= 0 THEN Append(sorted, e)
    ELSE Append(InsertSorted(SubSeq(sorted, 1, Len(sorted) - 1), e),
                sorted[Len(sorted)])

RECURSIVE SortEntries(_)
SortEntries(entries) ==
    IF Len(entries) = 0 THEN <<>>
    ELSE InsertSorted(SortEntries(SubSeq(entries, 1, Len(entries) - 1)),
                      entries[Len(entries)])

\* entry => { r, g, b, count } with [r, g, b] = key.split(',').map(Number)
ToCandidate(entry) ==
    LET parts == Split(entry.key, ",")
    IN [r |-> Number(parts[1]), g |-> Number(parts[2]), b |-> Number(parts[3]),
        count |-> entry.count]

SortedColors(colorCounts) ==
    LET sorted == SortEntries(colorCounts)
    IN [k \in 1..Len(sorted) |-> ToCandidate(sorted[k])]

(***************************************************************************)
(* extract(): pick top distinct colors, fill, convert                      *)
(***************************************************************************)
Dist(color, existing) ==
    Abs(color.r - existing.r) + Abs(color.g - existing.g)
        + Abs(color.b - existing.b)

\* a distinctness test against the quantization step
TooCloseStep(dist) == dist < QuantStep

\* if (dist < 60) isDistinct = false
TooClose(dist) == dist < DistinctThreshold

IsDistinct(color, finalColors) ==
    \A k \in 1..Len(finalColors) : ~TooClose(Dist(color, finalColors[k]))

\* for (const color of sortedColors) { if (length >= maxColors) break; ... }
RECURSIVE PickDistinct(_, _, _, _)
PickDistinct(sortedColors, k, finalColors, maxColors) ==
    IF k > Len(sortedColors) THEN finalColors
    ELSE IF Len(finalColors) >= maxColors THEN finalColors
    ELSE PickDistinct(sortedColors, k + 1,
                      IF IsDistinct(sortedColors[k], finalColors)
                      THEN Append(finalColors, sortedColors[k])
                      ELSE finalColors,
                      maxColors)

\* the filler entry { r: 20, g: 20, b: 20 } carries no count
Filler == [r |-> PadChannel, g |-> PadChannel, b |-> PadChannel]

\* while (finalColors.length < maxColors) finalColors.push(filler)
RECURSIVE Fill(_, _)
Fill(finalColors, maxColors) ==
    IF Len(finalColors) < maxColors
    THEN Fill(Append(finalColors, Filler), maxColors)
    ELSE finalColors

\* a channel conversion without the clamp
ChannelToHexUnclamped(x) ==
    LET hex == NumberToString(x, 16)
    IN IF Len(hex) = 1 THEN <<"0">> \o hex ELSE hex

\* one channel of rgbToHex: clamp, toString(16), pad to two digits
ChannelToHex(x) ==
    LET hex == NumberToString(Min(255, Max(0, x)), 16)
    IN IF Len(hex) = 1 THEN <<"0">> \o hex ELSE hex

rgbToHex(r, g, b) ==
    <<"#">> \o ChannelToHex(r) \o ChannelToHex(g) \o ChannelToHex(b)

FinalColors(imageData, maxColors) ==
    Fill(PickDistinct(SortedColors(CountColors(imageData, 0, <<>>)),
                      1, <<>>, maxColors),
         maxColors)

HexColors(finalColors) ==
    [k \in 1..Len(finalColors) |->
        rgbToHex(finalColors[k].r, finalColors[k].g, finalColors[k].b)]

(***************************************************************************)
(* extract(): control flow.  A completion is what one run of the closure   *)
(* does: it calls resolve(value), or it lets an exception escape.          *)
(*   - drawImage throws on an image in the broken state;                   *)
(*   - getImageData throws on a canvas tainted by a cross-origin image.    *)
(***************************************************************************)
Resolves(value, path, finalColors) ==
    [completion |-> "resolve", value |-> value, path |-> path,
     finalColors |-> finalColors]

Throws ==
    [completion |-> "throw", value |-> <<>>, path |-> "thrown",
     finalColors |-> <<>>]

\* the body of the outer try block
ExtractTry(img, maxColors) ==
    IF img.state = "broken" THEN Resolves(fallbackColors, "drawFault", <<>>)
    ELSE IF img.tainted THEN Throws
    ELSE LET finalColors == FinalColors(img.data, maxColors)
         IN Resolves(HexColors(finalColors), "extracted", finalColors)

\* a catch block that lets the exception go on
OuterCatchRethrows(attempt) == attempt

\* catch (e) { console.error(...); resolve(fallbackColors); }
OuterCatch(attempt) ==
    IF attempt.completion = "throw"
    THEN Resolves(fallbackColors, "runtimeFault", <<>>)
    ELSE attempt

extract(img, maxColors) == OuterCatch(ExtractTry(img, maxColors))

(***************************************************************************)
(* Inputs: pixel buffers as getImageData returns them (flat r,g,b,a).      *)
(***************************************************************************)
RECURSIVE Flatten(_)
Flatten(pixels) ==
    IF Len(pixels) = 0 THEN <<>>
    ELSE pixels[1] \o Flatten(SubSeq(pixels, 2, Len(pixels)))

Red == <<255, 0, 0, 255>>
Blue == <<0, 0, 255, 255>>

SamplePixels ==
    { Red, Blue,
      <<200, 50, 50, 255>>,
      <<190, 60, 40, 255>>,
      <<255, 255, 0, 255>>,
      <<240, 240, 24, 128>>,
      <<12, 36, 60, 200>>,
      <<12, 36, 255, 127>> }

MixedPixels == UNION { [1..n -> SamplePixels] : n \in 1..MaxPixels }

UniformPixels ==
    { [k \in 1..n |-> <<r, gb[1], gb[2], a>>] :
        r \in 0..255, gb \in { <<50, 50>>, <<0, 255>> },
        a \in {127, 128, 255}, n \in {1, MaxPixels} }

Buffers == { Flatten(px) : px \in MixedPixels \cup UniformPixels }

\* what a finished load can leave in an image of the event model
LoadContents ==
    { [tainted |-> TRUE, data |-> Flatten(<<Red>>)],
      [tainted |-> FALSE, data |-> Flatten(<<Red, Blue, Blue>>)] }

\* the maxColors arguments of the event model
CallSizes == {1, MaxColors}

(***************************************************************************)
(* State                                                                   *)
(***************************************************************************)
VARIABLES
    image,        \* image handle -> src set?, load state, cross-origin?, pixels
    onload,       \* image handle -> the call whose closure is in .onload
    onerror,      \* image handle -> the call whose closure is in .onerror
    promise,      \* call -> state and value of the promise it returned
    args,         \* call -> imageElement and maxColors its closures captured
    path,         \* call -> the branch whose resolve settled the promise
    finalColors,  \* call -> finalColors of the run that settled the promise
    firstSignal,  \* call -> first signal its image fired while it was pending
    srcSets       \* how often the page has assigned a src

vars == <<image, onload, onerror, promise, args, path, finalColors,
          firstSignal, srcSets>>

NoSrcImage == [src |-> FALSE, state |-> "none", tainted |-> FALSE, data |-> <<>>]
NoPromise == [status |-> "none", value |-> <<>>]
PendingPromise == [status |-> "pending", value |-> <<>>]
NoArgs == [imageElement |-> NoImage, maxColors |-> 0]

\* HTMLImageElement.complete
Complete(img) == ~img.src \/ img.state \in {"available", "broken"}

\* resolve(value) of a promise: only the first settlement counts
Resolve(p, value) ==
    IF p.status = "pending" THEN [status |-> "resolved", value |-> value] ELSE p

\* an exception that escapes the executor rejects the promise
Reject(p) ==
    IF p.status = "pending" THEN [status |-> "rejected", value |-> <<>>] ELSE p

\* the effect of a completion reached inside the executor
InExecutor(p, done) ==
    IF done.completion = "throw" THEN Reject(p) ELSE Resolve(p, done.value)

\* the effect of a completion reached inside an event handler: an exception
\* that escapes a handler is reported to the page and settles nothing
InHandler(p, done) ==
    IF done.completion = "throw" THEN p ELSE Resolve(p, done.value)

Settles(p, q) == p.status = "pending" /\ q.status # "pending"

Record(c, p, q, done) ==
    /\ promise' = [promise EXCEPT ![c] = q]
    /\ path' = IF Settles(p, q) THEN [path EXCEPT ![c] = done.path] ELSE path
    /\ finalColors' = IF Settles(p, q)
                      THEN [finalColors EXCEPT ![c] = done.finalColors]
                      ELSE finalColors

InitCalls ==
    /\ onload = [i \in Imgs |-> NoHandler]
    /\ onerror = [i \in Imgs |-> NoHandler]
    /\ promise = [c \in Calls |-> NoPromise]
    /\ args = [c \in Calls |-> NoArgs]
    /\ path = [c \in Calls |-> "none"]
    /\ finalColors = [c \in Calls |-> <<>>]
    /\ firstSignal = [c \in Calls |-> "none"]
    /\ srcSets = 0

Init ==
    /\ image = [i \in Imgs |-> NoSrcImage]
    /\ InitCalls

(***************************************************************************)
(* getDominantColors(imageElement, maxColors): the executor                *)
(***************************************************************************)
GetDominantColors(c, i, maxColors) ==
    /\ promise[c].status = "none"
    /\ \A d \in Calls : d < c => promise[d].status # "none"
    /\ args' = [args EXCEPT ![c] = [imageElement |-> i, maxColors |-> maxColors]]
    /\ UNCHANGED <<image, firstSignal, srcSets>>
    /\ IF i = NoImage \/ ~image[i].src
       THEN /\ Record(c, PendingPromise,
                      InExecutor(PendingPromise,
                                 Resolves(fallbackColors, "noSource", <<>>)),
                      Resolves(fallbackColors, "noSource", <<>>))
            /\ UNCHANGED <<onload, onerror>>
       ELSE IF Complete(image[i])
       THEN /\ Record(c, PendingPromise,
                      InExecutor(PendingPromise, extract(image[i], maxColors)),
                      extract(image[i], maxColors))
            /\ UNCHANGED <<onload, onerror>>
       ELSE /\ onload' = [onload EXCEPT ![i] = c]
            /\ onerror' = [onerror EXCEPT ![i] = c]
            /\ promise' = [promise EXCEPT ![c] = PendingPromise]
            /\ UNCHANGED <<path, finalColors>>

(***************************************************************************)
(* The page and the browser: src assignment, load and error events         *)
(***************************************************************************)
SetSrc(i) ==
    /\ srcSets < MaxSrcSets
    /\ image[i].state # "loading"
    /\ \A j \in Imgs : j < i => image[j].src
    /\ image' = [image EXCEPT ![i] = [src |-> TRUE, state |-> "loading",
                                      tainted |-> FALSE, data |-> <<>>]]
    /\ srcSets' = srcSets + 1
    /\ UNCHANGED <<onload, onerror, promise, args, path, finalColors,
                   firstSignal>>

Signalled(i, signal) ==
    [c \in Calls |->
        IF /\ promise[c].status = "pending"
           /\ args[c].imageElement = i
           /\ firstSignal[c] = "none"
        THEN signal ELSE firstSignal[c]]

\* the load event: imageElement.onload = () => extract()
FireLoad(i, content) ==
    /\ image[i].state = "loading"
    /\ image' = [image EXCEPT ![i] = [src |-> TRUE, state |-> "available",
                                      tainted |-> content.tainted,
                                      data |-> content.data]]
    /\ firstSignal' = Signalled(i, "load")
    /\ UNCHANGED <<onload, onerror, args, srcSets>>
    /\ IF onload[i] = NoHandler
       THEN UNCHANGED <<promise, path, finalColors>>
       ELSE LET c == onload[i]
                done == extract(image'[args[c].imageElement], args[c].maxColors)
            IN Record(c, promise[c], InHandler(promise[c], done), done)

\* the error event: imageElement.onerror = () => resolve(fallbackColors)
FireError(i) ==
    /\ image[i].state = "loading"
    /\ image' = [image EXCEPT ![i] = [src |-> TRUE, state |-> "broken",
                                      tainted |-> FALSE, data |-> <<>>]]
    /\ firstSignal' = Signalled(i, "error")
    /\ UNCHANGED <<onload, onerror, args, srcSets>>
    /\ IF onerror[i] = NoHandler
       THEN UNCHANGED <<promise, path, finalColors>>
       ELSE LET c == onerror[i]
                done == Resolves(fallbackColors, "loadError", <<>>)
            IN Record(c, promise[c], InHandler(promise[c], done), done)

Next ==
    \/ \E c \in Calls, i \in Imgs \cup {NoImage}, maxColors \in CallSizes :
           GetDominantColors(c, i, maxColors)
    \/ \E i \in Imgs : SetSrc(i)
    \/ \E i \in Imgs, content \in LoadContents : FireLoad(i, content)
    \/ \E i \in Imgs : FireError(i)

Spec == Init /\ [][Next]_vars

(***************************************************************************)
(* The extraction alone: one call on an image that is already complete,    *)
(* over all the pixel buffers of the input sets.                           *)
(***************************************************************************)
ExtractInit ==
    /\ \E data \in Buffers, state \in {"available", "broken"}, tainted \in BOOLEAN :
          /\ (state = "broken" \/ tainted) => data = <<>>
          /\ image = [i \in Imgs |->
                         IF i = 1
                         THEN [src |-> TRUE, state |-> state,
                               tainted |-> tainted, data |-> data]
                         ELSE NoSrcImage]
    /\ InitCalls

ExtractNext ==
    \E i \in Imgs \cup {NoImage}, maxColors \in 1..MaxColors :
        GetDominantColors(1, i, maxColors)

ExtractSpec == ExtractInit /\ [][ExtractNext]_vars

(***************************************************************************)
(* Vocabulary of the properties, stated on pixels and on emitted strings   *)
(* without the operators of extract().                                     *)
(***************************************************************************)
HexChars == {"0", "1", "2", "3", "4", "5", "6", "7", "8", "9",
             "a", "b", "c", "d", "e", "f"}

IsHexColor(s) ==
    /\ Len(s) = 7
    /\ s[1] = "#"
    /\ \A k \in 2..7 : s[k] \in HexChars

HexValue(ch) == CHOOSE d \in 0..15 : Digits[d + 1] = ch

\* the channels <<r, g, b>> an emitted string denotes
Emitted(s) ==
    <<16 * HexValue(s[2]) + HexValue(s[3]),
      16 * HexValue(s[4]) + HexValue(s[5]),
      16 * HexValue(s[6]) + HexValue(s[7])>>

\* the two-digit lowercase hex numeral of v in 0..255
TwoHex(v) == <<Digits[(v \div 16) + 1], Digits[(v % 16) + 1]>>

\* the multiple of 24 nearest to x, the upper one when x is half way
Nearest24(x) ==
    24 * (CHOOSE k \in 0..11 : 24 * k - 12 <= x /\ x < 24 * k + 12)

Manhattan(u, v) ==
    Abs(u[1] - v[1]) + Abs(u[2] - v[2]) + Abs(u[3] - v[3])

PadString == <<"#", "1", "4", "1", "4", "1", "4">>

IsSelected(entry) == "count" \in DOMAIN entry
Channels(entry) == <<entry.r, entry.g, entry.b>>

\* pixels of a flat buffer, numbered from 0
PixelsOf(data) == 0..((Len(data) \div 4) - 1)
PixelRGB(data, p) == <<data[4 * p + 1], data[4 * p + 2], data[4 * p + 3]>>
PixelAlpha(data, p) == data[4 * p + 4]
OpaquePixels(data) == { p \in PixelsOf(data) : PixelAlpha(data, p) >= 128 }
BucketOfPixel(data, p) ==
    <<Nearest24(data[4 * p + 1]), Nearest24(data[4 * p + 2]),
      Nearest24(data[4 * p + 3])>>
BucketsOf(data) == { BucketOfPixel(data, p) : p \in OpaquePixels(data) }
PixelCount(data, bucket) ==
    Cardinality({ p \in OpaquePixels(data) : BucketOfPixel(data, p) = bucket })

\* the call ran the whole extraction on the image it was given
\* (in ExtractSpec an image never changes after the call)
Extracted(c) ==
    /\ promise[c].status = "resolved"
    /\ args[c].imageElement # NoImage
    /\ image[args[c].imageElement].src
    /\ image[args[c].imageElement].state = "available"
    /\ ~image[args[c].imageElement].tainted

DataOf(c) == image[args[c].imageElement].data

(***************************************************************************)
(* Properties                                                              *)
(***************************************************************************)

\* C1: every resolved palette has exactly maxColors entries, on every
\* resolution path (missing source, load failure, draw fault, runtime
\* fault, successful extraction).
C1_LengthIsMaxColors ==
    \A c \in Calls :
        promise[c].status = "resolved" =>
            Len(promise[c].value) = args[c].maxColors

FailurePaths == {"noSource", "loadError", "drawFault", "runtimeFault"}

C3_WellFormed ==
    \A c \in Calls :
        promise[c].status = "resolved" =>
            /\ \A k \in 1..Len(promise[c].value) : IsHexColor(promise[c].value[k])
            /\ \A k \in 1..Len(finalColors[c]) :
                   LET e == finalColors[c][k]
                   IN /\ IsSelected(e) =>
                             \A x \in {e.r, e.g, e.b} :
                                 x \in { 24 * n : n \in 0..11 }
                      /\ promise[c].value[k] =
                             <<"#">> \o TwoHex(Min(255, e.r))
                                 \o TwoHex(Min(255, e.g)) \o TwoHex(Min(255, e.b))

\* C3 witness: a selected bucket with a channel of 264 (clamped to ff) and a
\* channel below 16 (zero padded) was emitted.
C3_Witness ==
    \E c \in Calls :
        /\ Extracted(c)
        /\ \E k \in 1..Len(finalColors[c]) :
               /\ IsSelected(finalColors[c][k])
               /\ finalColors[c][k].r = 264
               /\ finalColors[c][k].g = 0
               /\ promise[c].value[k] = <<"#", "f", "f", "0", "0", "f", "f">>

\* C4: once the image of a suspended call has fired its load or its
\* load-failure signal, the call is no longer pending.
C4_NoPendingAfterSignal ==
    \A c \in Calls :
        promise[c].status = "pending" => firstSignal[c] = "none"

\* the closures of call c are the ones its image will run on a signal
Registered(c) ==
    /\ onload[args[c].imageElement] = c
    /\ onerror[args[c].imageElement] = c

\* C5: no step (in particular no start of another call) takes away from a
\* pending call what makes it resolve: a pending call whose closures are
\* registered on its image still has them registered while it is pending.
C5_CallsAreIndependent ==
    [][\A c \in Calls :
          (promise[c].status = "pending" /\ Registered(c)) =>
              (promise'[c].status = "pending" => Registered(c)')]_vars

SelectedPairs(c) ==
    { jk \in (1..Len(finalColors[c])) \X (1..Len(finalColors[c])) :
        /\ jk[1] < jk[2]
        /\ IsSelected(finalColors[c][jk[1]])
        /\ IsSelected(finalColors[c][jk[2]]) }

\* C6 as stated: in an extracted palette any two entries that come from
\* selected candidates are at Manhattan distance >= 60, measured on the
\* emitted colors.
C6_EmittedDistance ==
    \A c \in Calls :
        Extracted(c) =>
            \A jk \in SelectedPairs(c) :
                Manhattan(Emitted(promise[c].value[jk[1]]),
                          Emitted(promise[c].value[jk[2]])) >= 60

RedBlueOnly(data) ==
    { PixelRGB(data, p) : p \in PixelsOf(data) } = { <<255, 0, 0>>, <<0, 0, 255>> }
        /\ OpaquePixels(data) = PixelsOf(data)

\* C6 amended: any two entries that come from selected candidates are at
\* Manhattan distance >= 60 measured on the candidates' quantized channels
\* (before the clamp to 255); an image of opaque pure red and pure blue
\* pixels with maxColors = 2 yields two selected entries, no padding, whose
\* emitted colors are at distance >= 60.
C6_CandidateDistance ==
    \A c \in Calls :
        Extracted(c) =>
            /\ \A jk \in SelectedPairs(c) :
                   Manhattan(Channels(finalColors[c][jk[1]]),
                             Channels(finalColors[c][jk[2]])) >= 60
            /\ (RedBlueOnly(DataOf(c)) /\ args[c].maxColors = 2) =>
                   /\ Len(promise[c].value) = 2
                   /\ \A k \in 1..2 : IsSelected(finalColors[c][k])
                   /\ PadString \notin { promise[c].value[k] : k \in 1..2 }
                   /\ Manhattan(Emitted(promise[c].value[1]),
                                Emitted(promise[c].value[2])) >= 60

\* C6 witness: the red and blue image was extracted with maxColors = 2.
C6_Witness ==
    \E c \in Calls :
        /\ Extracted(c)
        /\ RedBlueOnly(DataOf(c))
        /\ args[c].maxColors = 2
        /\ SelectedPairs(c) = { <<1, 2>> }

UniformOpaque(data) ==
    /\ PixelsOf(data) # {}
    /\ OpaquePixels(data) = PixelsOf(data)
    /\ \A p \in PixelsOf(data) : PixelRGB(data, p) = PixelRGB(data, 0)

\* C7: for a uniform opaque image (all pixels the same r,g,b, alpha >= 128)
\* and every maxColors >= 1 the first entry is the hex encoding of
\* min(255, round(x/24)*24) per channel and every other entry is '#141414'.
C7_UniformImage ==
    \A c \in Calls :
        (Extracted(c) /\ UniformOpaque(DataOf(c))) =>
            LET rgb == PixelRGB(DataOf(c), 0)
            IN /\ Len(promise[c].value) = args[c].maxColors
               /\ promise[c].value[1] =
                      <<"#">> \o TwoHex(Min(255, Nearest24(rgb[1])))
                          \o TwoHex(Min(255, Nearest24(rgb[2])))
                          \o TwoHex(Min(255, Nearest24(rgb[3])))
               /\ \A k \in 2..Len(promise[c].value) :
                      promise[c].value[k] = PadString
               /\ (rgb = <<200, 50, 50>>) =>
                      promise[c].value[1] = <<"#", "c", "0", "3", "0", "3", "0">>

\* C7 witness: the uniform (200,50,50) image was extracted into '#c03030'
\* followed by padding.
C7_Witness ==
    \E c \in Calls :
        /\ Extracted(c)
        /\ UniformOpaque(DataOf(c))
        /\ PixelRGB(DataOf(c), 0) = <<200, 50, 50>>
        /\ Len(DataOf(c)) > 4
        /\ promise[c].value[1] = <<"#", "c", "0", "3", "0", "3", "0">>
        /\ Len(promise[c].value) >= 2
        /\ promise[c].value[2] = PadString

SignalPaths(signal) ==
    IF signal = "error" THEN {"loadError"}
    ELSE {"extracted", "drawFault", "runtimeFault"}

\* C8: a call made on a not-yet-loaded image is settled by whichever of the
\* load and load-failure signals its image fires first: once that signal has
\* fired the promise is resolved, by the handler of that signal, and with
\* the fallback palette if the signal was the load failure.
C8_SettledByFirstSignal ==
    \A c \in Calls :
        firstSignal[c] # "none" =>
            /\ promise[c].status = "resolved"
            /\ path[c] \in SignalPaths(firstSignal[c])
            /\ firstSignal[c] = "error" => promise[c].value = fallbackColors

\* the number of leading selected entries of a palette
SelectedPrefix(final) ==
    Cardinality({ k \in 1..Len(final) : \A j \in 1..k : IsSelected(final[j]) })

\* C9: an extracted palette is a run of selected buckets in non-increasing
\* pixel-count order, led by a bucket of maximal count when some pixel has
\* alpha >= 128, followed only by (20,20,20) padding; padding appears only
\* when every bucket not selected is closer than 60 to a selected one.
C9_OrderedPrefixThenPadding ==
    \A c \in Calls :
        Extracted(c) =>
            LET final == finalColors[c]
                data == DataOf(c)
                n == SelectedPrefix(final)
                chosen == { Channels(final[k]) : k \in 1..n }
            IN /\ Len(final) = Len(promise[c].value)
               /\ \A k \in 1..n :
                      /\ Channels(final[k]) \in BucketsOf(data)
                      /\ final[k].count = PixelCount(data, Channels(final[k]))
               /\ \A k \in (n + 1)..Len(final) :
                      /\ ~IsSelected(final[k])
                      /\ Channels(final[k]) = <<20, 20, 20>>
                      /\ promise[c].value[k] = PadString
               /\ \A k \in 1..(n - 1) : final[k].count >= final[k + 1].count
               /\ BucketsOf(data) # {} =>
                      /\ n >= 1
                      /\ \A bucket \in BucketsOf(data) :
                             final[1].count >= PixelCount(data, bucket)
               /\ n < Len(final) =>
                      \A bucket \in BucketsOf(data) \ chosen :
                          \E u \in chosen : Manhattan(bucket, u) < 60

\* C9 witness: two buckets of which the more frequent leads, the other was
\* rejected for being too close, and the palette ends in padding.
C9_Witness ==
    \E c \in Calls :
        /\ Extracted(c)
        /\ Cardinality(BucketsOf(DataOf(c))) = 2
        /\ Len(DataOf(c)) = 12
        /\ Len(finalColors[c]) = 3
        /\ SelectedPrefix(finalColors[c]) = 1
        /\ finalColors[c][1].count = 2
        /\ promise[c].value[3] = PadString

RECURSIVE SumCounts(_)
SumCounts(table) ==
    IF Len(table) = 0 THEN 0
    ELSE table[1].count + SumCounts(SubSeq(table, 2, Len(table)))

\* the buffer with r,g,b of every pixel of alpha < 128 set to 0
Blanked(data) ==
    [k \in 1..Len(data) |->
        IF data[4 * ((k - 1) \div 4) + 4] < 128 /\ (k % 4) # 0 THEN 0 ELSE data[k]]

\* C10: pixels of alpha < 128 enter no bucket and every pixel of alpha >= 128
\* (128 included) adds one to exactly one bucket, so the counts sum to the
\* number of pixels of alpha >= 128; the r,g,b of pixels of alpha < 128 do
\* not influence the result; an image with only such pixels resolves to
\* maxColors copies of '#141414'.
C10_TransparentPixelsIgnored ==
    \A c \in Calls :
        Extracted(c) =>
            LET data == DataOf(c)
                table == CountColors(data, 0, <<>>)
            IN /\ SumCounts(table) = Cardinality(OpaquePixels(data))
               /\ \A j \in 1..Len(table) : table[j].count >= 1
               /\ \A j, k \in 1..Len(table) :
                      table[j].key = table[k].key => j = k
               /\ promise[c].value =
                      HexColors(FinalColors(Blanked(data), args[c].maxColors))
               /\ OpaquePixels(data) = {} =>
                      promise[c].value =
                          [k \in 1..args[c].maxColors |-> PadString]

\* C10 witness: a buffer with a coloured pixel of alpha 127 and a pixel of
\* alpha exactly 128 was extracted.
C10_Witness ==
    \E c \in Calls :
        /\ Extracted(c)
        /\ \E p, q \in PixelsOf(DataOf(c)) :
               /\ PixelAlpha(DataOf(c), p) = 127
               /\ PixelRGB(DataOf(c), p) # <<0, 0, 0>>
               /\ PixelAlpha(DataOf(c), q) = 128
        /\ Cardinality(OpaquePixels(DataOf(c))) = 1
        /\ promise[c].value[1] = <<"#", "f", "0", "f", "0", "1", "8">>

====
